---- MODULE Spec2Model ----
(***************************************************************************)
(* Model of the Cloud Bigtable / RLS test harness (main.go and its earlier *)
(* variant without the RLS channel).  One run of main() is a sequential    *)
(* walk over its external call sites; the storage service is the           *)
(* environment: every call returns OK or an error, consistently with the   *)
(* service state (table, column families, rows).                           *)
(***************************************************************************)
EXTENDS Integers, Sequences, FiniteSets, TLC

VARIABLES
    variant,        \* "rls": main.go; "plain": the variant without createDataClient
    flags,          \* the command-line flags of the run
    pc,             \* the call site main() is about to execute
    tableExists,    \* service: the table tableID exists
    families,       \* service: column families of the table
    rows,           \* service: row key -> cells, newest first
    rows0,          \* the rows of the table when the run started
    now,            \* bigtable.Now(), microseconds
    i,              \* loop index of writeToTable
    calls,          \* external calls made so far: [op, arg, res]
    ret,            \* return value of createDataClient, createTable, writeToTable
    dialed,         \* the service configs handed to grpc.Dial, at most one
    single,         \* cells returned by ReadRow
    scanned         \* rows handed to printRow by ReadRows, in order

vars == <<variant, flags, pc, tableExists, families, rows, rows0, now, i,
          calls, ret, dialed, single, scanned>>

(* ------------------------------ bounds -------------------------------- *)
\* Pre-existing row keys are rowKeyPrefix + j for j in 0..MaxPreIdx, or foreign.
MaxPreIdx == 3
\* At most this many rows are in the table before the run.
MaxPreRows == 2

(* --------------------------- program constants ------------------------ *)
rlsDefaultTarget == "dns:///test-bigtable.sandbox.googleapis.com"
cbtRLSTestEndpoint == "dns:///test-bigtablerls.sandbox.googleapis.com"
greetings == <<"Hello World!", "Hello Bigtable!", "Hello Golang!">>
columnFamily == "cf1"
columnQualifier == "greeting"
\* The flag row_key_prefix as bytes; "r_" stands for the default "row_key_".
rowKeyPrefix == <<114, 95>>
\* Keys of rows that other programs may have left in the table.
ForeignKeys == {<<114>>, <<120, 48>>}

(* ------------------------------ errors -------------------------------- *)
OK == "OK"
\* An error that is no gRPC status (status.FromError reports !ok).
NonStatus == "NonStatus"
Transient == {NonStatus, "PermissionDenied", "Unavailable", "InvalidArgument"}

\* status.FromError(err): ok and the status code.
FromError(err) ==
    [ok |-> err # NonStatus, code |-> IF err = NonStatus THEN "Unknown" ELSE err]

(* --------------------------- pure helpers ----------------------------- *)
RECURSIVE Itoa(_)
\* fmt's %d of a non-negative int, as ASCII bytes.
Itoa(n) == IF n < 10 THEN <<48 + n>> ELSE Itoa(n \div 10) \o <<48 + (n % 10)>>

\* Variation of RowKey: the loop index is dropped, every key ends in 0.
RowKey_IndexDropped(prefix, n) == prefix \o Itoa(0)

\* fmt.Sprintf("%s%d", rowKeyPrefix, i)
RowKey(prefix, n) == prefix \o Itoa(n)

\* bigtable.PrefixRange(prefix).Contains(key)
HasPrefix(key, prefix) ==
    /\ Len(key) >= Len(prefix)
    /\ SubSeq(key, 1, Len(prefix)) = prefix

RECURSIVE LexLess(_, _)
\* Byte-wise order of row keys, the order of a scan.
LexLess(a, b) ==
    IF a = <<>> THEN b # <<>>
    ELSE IF b = <<>> THEN FALSE
    ELSE IF Head(a) # Head(b) THEN Head(a) < Head(b)
    ELSE LexLess(Tail(a), Tail(b))

RECURSIVE SortKeys(_)
SortKeys(S) ==
    IF S = {} THEN <<>>
    ELSE LET m == CHOOSE k \in S : \A o \in S \ {k} : LexLess(k, o)
         IN  <<m>> \o SortKeys(S \ {m})

\* mutation.Set(family, column, ts, value) applied to a row's cells: a cell of
\* the same family, column and timestamp is replaced, else a version is added.
SetCell(cells, fam, col, ts, val) ==
    <<[fam |-> fam, col |-> col, ts |-> ts, val |-> val]>> \o
    SelectSeq(cells, LAMBDA c : ~(c.fam = fam /\ c.col = col /\ c.ts = ts))

\* The rows a ReadRows over PrefixRange(prefix) hands to its callback.
ScanRows(rs, prefix) ==
    LET ks == SortKeys({k \in DOMAIN rs : HasPrefix(k, prefix)})
    IN  [n \in 1..Len(ks) |-> [key |-> ks[n], cells |-> rs[ks[n]]]]

\* Variation of DefaultTarget: the flag is ignored.
DefaultTarget_FlagIgnored(enable) == rlsDefaultTarget

\* createDataClient: the default target put into the service config.
DefaultTarget(enable) == IF enable THEN rlsDefaultTarget ELSE ""

\* fmt.Sprintf(serviceConfigTmpl, lookupService, defaultTarget): the two
\* substituted fields of the template.
ServiceConfig(lookup, target) == [lookupService |-> lookup, defaultTarget |-> target]

\* createDataClient: which bigtable constructor is called.
ClientCtor(appProfile) ==
    IF appProfile # "" THEN "NewClientWithConfig" ELSE "NewClient"

\* Variation of Fatal: a failed single-row read is logged and the run goes on.
Fatal_ReadRowResumes(p) == IF p = "readRow" THEN "readRows" ELSE "fatal"

\* log.Fatalf after a failed stage at call site p: the process exits.
Fatal(p) == "fatal"

\* Variation of TableInfoNext: the status code is not compared to NotFound.
TableInfoNext_AnyStatusCreates(res) ==
    IF res = OK THEN "write"
    ELSE IF ~FromError(res).ok THEN "fatal"
    ELSE "createTable"

\* createTable after TableInfo returned res: the next position of the run.
TableInfoNext(res) ==
    IF res = OK THEN "write"
    ELSE IF ~FromError(res).ok THEN Fatal("tableInfo")
    ELSE IF FromError(res).code # "NotFound" THEN Fatal("tableInfo")
    ELSE "createTable"

\* Variation of CreateTableNext: AlreadyExists is taken for success.
CreateTableNext_ExistsTolerated(res) ==
    IF res \notin {OK, "AlreadyExists"} THEN "fatal" ELSE "createCF"

\* createTable after CreateTable returned res.
CreateTableNext(res) == IF res # OK THEN Fatal("createTable") ELSE "createCF"

\* Variation of WriteLoopNext: a failed Apply does not end the loop.
WriteLoopNext_ErrorIgnored(n, res) ==
    IF n + 1 < Len(greetings) THEN "write" ELSE "readRow"

\* writeToTable's loop after Apply of row n returned res.
WriteLoopNext(n, res) ==
    IF res # OK THEN Fatal("write")
    ELSE IF n + 1 < Len(greetings) THEN "write"
    ELSE "readRow"

\* Variation of AfterScan: skip_table_deletion is not consulted.
AfterScan_SkipIgnored(v, skip) == "deleteTable"

\* main after readEntireTable succeeded.
AfterScan(v, skip) == IF v = "rls" /\ skip THEN "done" ELSE "deleteTable"

Call(op, arg, res) == [op |-> op, arg |-> arg, res |-> res]

(* ------------------------------- Init --------------------------------- *)
PreKeys == {RowKey(rowKeyPrefix, j) : j \in 0..MaxPreIdx} \cup ForeignKeys
OldCell(f) == [fam |-> f, col |-> columnQualifier, ts |-> 0, val |-> "old"]
EmptyRows == [k \in {} |-> <<>>]

Init ==
    /\ variant \in {"rls", "plain"}
    /\ flags \in [enableDefaultTarget : BOOLEAN, skipTableDeletion : BOOLEAN,
                  appProfile : {"", "profile1"}]
    /\ variant = "plain" =>
          flags = [enableDefaultTarget |-> FALSE, skipTableDeletion |-> FALSE,
                   appProfile |-> ""]
    /\ tableExists \in BOOLEAN
    /\ families \in IF tableExists THEN {{}, {columnFamily}} ELSE {{}}
    /\ \E S \in SUBSET PreKeys :
          /\ Cardinality(S) <= MaxPreRows
          /\ S # {} => columnFamily \in families
          /\ rows = [k \in S |-> <<OldCell(columnFamily)>>]
    /\ rows0 = rows
    /\ pc = "newAdmin"
    /\ now = 1
    /\ i = 0
    /\ calls = <<>>
    /\ ret = [createDataClient |-> "none", createTable |-> "none",
              writeToTable |-> "none"]
    /\ dialed = <<>>
    /\ single = <<>>
    /\ scanned = <<>>

(* ------------------------------ actions ------------------------------- *)
svc == <<tableExists, families, rows>>

\* bigtable.NewAdminClient
NewAdminClient ==
    /\ pc = "newAdmin"
    /\ \E res \in {OK} \cup Transient :
          /\ calls' = Append(calls, Call("NewAdminClient", <<>>, res))
          /\ pc' = IF res # OK THEN Fatal(pc)
                   ELSE IF variant = "rls" THEN "dial" ELSE "newClient"
    /\ UNCHANGED <<variant, flags, svc, rows0, now, i, ret, dialed, single, scanned>>

\* createDataClient up to grpc.Dial
Dial ==
    /\ pc = "dial"
    /\ dialed' = <<ServiceConfig(cbtRLSTestEndpoint,
                                 DefaultTarget(flags.enableDefaultTarget))>>
    /\ \E res \in {OK} \cup Transient :
          /\ calls' = Append(calls, Call("Dial", <<>>, res))
          /\ pc' = IF res # OK THEN Fatal(pc) ELSE "newClient"
          /\ ret' = IF res # OK THEN [ret EXCEPT !.createDataClient = "err"] ELSE ret
    /\ UNCHANGED <<variant, flags, svc, rows0, now, i, single, scanned>>

\* bigtable.NewClient or bigtable.NewClientWithConfig
NewDataClient ==
    /\ pc = "newClient"
    /\ \E res \in {OK} \cup Transient :
          /\ calls' = Append(calls,
                 Call(IF variant = "rls" THEN ClientCtor(flags.appProfile)
                      ELSE "NewClient", <<>>, res))
          /\ pc' = IF res # OK THEN Fatal(pc) ELSE "tableInfo"
          /\ ret' = IF variant = "rls"
                    THEN [ret EXCEPT !.createDataClient =
                                        IF res = OK THEN "ok" ELSE "err"]
                    ELSE ret
    /\ UNCHANGED <<variant, flags, svc, rows0, now, i, dialed, single, scanned>>

\* createTable: adminClient.TableInfo and the classification of its error
TableInfo ==
    /\ pc = "tableInfo"
    /\ \E res \in (IF tableExists THEN {OK} ELSE {"NotFound"}) \cup Transient :
          /\ calls' = Append(calls, Call("TableInfo", <<>>, res))
          /\ pc' = TableInfoNext(res)
          /\ ret' = [ret EXCEPT !.createTable =
                        CASE TableInfoNext(res) = "write" -> "ok"
                          [] TableInfoNext(res) = "createTable" -> "none"
                          [] OTHER -> "err"]
    /\ UNCHANGED <<variant, flags, svc, rows0, now, i, dialed, single, scanned>>

\* createTable: adminClient.CreateTable.  AlreadyExists: another client created
\* the table after the existence check.
CreateTable ==
    /\ pc = "createTable"
    /\ \E res \in (IF tableExists THEN {} ELSE {OK, "AlreadyExists"}) \cup Transient :
          /\ calls' = Append(calls, Call("CreateTable", <<>>, res))
          /\ pc' = CreateTableNext(res)
          /\ ret' = IF CreateTableNext(res) = "createCF" THEN ret
                    ELSE [ret EXCEPT !.createTable = "err"]
          /\ IF res = OK
             THEN /\ tableExists' = TRUE
                  /\ families' = {}
                  /\ rows' = EmptyRows
             ELSE IF res = "AlreadyExists"
             THEN /\ tableExists' = TRUE
                  /\ families' \in {{}, {columnFamily}}
                  /\ rows' = EmptyRows
             ELSE UNCHANGED svc
    /\ UNCHANGED <<variant, flags, rows0, now, i, dialed, single, scanned>>

\* createTable: adminClient.CreateColumnFamily
CreateColumnFamily ==
    /\ pc = "createCF"
    /\ \E res \in (IF columnFamily \in families THEN {"AlreadyExists"} ELSE {OK})
                      \cup Transient :
          /\ calls' = Append(calls, Call("CreateColumnFamily", <<>>, res))
          /\ pc' = IF res # OK THEN Fatal(pc) ELSE "write"
          /\ ret' = [ret EXCEPT !.createTable = IF res = OK THEN "ok" ELSE "err"]
          /\ families' = IF res = OK THEN families \cup {columnFamily} ELSE families
    /\ UNCHANGED <<variant, flags, tableExists, rows, rows0, now, i, dialed,
                   single, scanned>>

\* writeToTable: one iteration of the loop, table.Apply of row i
Apply ==
    /\ pc = "write"
    /\ LET key == RowKey(rowKeyPrefix, i)
           old == IF key \in DOMAIN rows THEN rows[key] ELSE <<>>
       IN  \E res \in (IF tableExists /\ columnFamily \in families
                       THEN {OK} ELSE {"NotFound"}) \cup Transient :
              /\ calls' = Append(calls, Call("Apply", key, res))
              /\ pc' = WriteLoopNext(i, res)
              /\ ret' = [ret EXCEPT !.writeToTable =
                            CASE WriteLoopNext(i, res) = "write" -> "none"
                              [] WriteLoopNext(i, res) = "readRow" -> "ok"
                              [] OTHER -> "err"]
              /\ i' = IF WriteLoopNext(i, res) = "write" THEN i + 1 ELSE i
              /\ rows' = IF res = OK
                         THEN [k \in DOMAIN rows \cup {key} |->
                                  IF k = key
                                  THEN SetCell(old, columnFamily, columnQualifier,
                                               now, greetings[i + 1])
                                  ELSE rows[k]]
                         ELSE rows
    /\ now' = now + 1
    /\ UNCHANGED <<variant, flags, tableExists, families, rows0, dialed, single,
                   scanned>>

\* readSingleRowFromTable: table.ReadRow of rowKeyPrefix + 0
ReadRow ==
    /\ pc = "readRow"
    /\ LET key == RowKey(rowKeyPrefix, 0)
       IN  \E res \in (IF tableExists THEN {OK} ELSE {"NotFound"}) \cup Transient :
              /\ calls' = Append(calls, Call("ReadRow", key, res))
              /\ pc' = IF res # OK THEN Fatal(pc) ELSE "readRows"
              /\ single' = IF res = OK /\ key \in DOMAIN rows THEN rows[key] ELSE <<>>
    /\ UNCHANGED <<variant, flags, svc, rows0, now, i, ret, dialed, scanned>>

\* readEntireTable: table.ReadRows over PrefixRange(rowKeyPrefix); printRow
\* returns true for every row, so the scan is never cut short.
ReadRows ==
    /\ pc = "readRows"
    /\ \E res \in (IF tableExists THEN {OK} ELSE {"NotFound"}) \cup Transient :
          /\ calls' = Append(calls, Call("ReadRows", rowKeyPrefix, res))
          /\ pc' = IF res # OK THEN Fatal(pc)
                   ELSE AfterScan(variant, flags.skipTableDeletion)
          /\ scanned' = IF res = OK THEN ScanRows(rows, rowKeyPrefix) ELSE <<>>
    /\ UNCHANGED <<variant, flags, svc, rows0, now, i, ret, dialed, single>>

\* adminClient.DeleteTable
DeleteTable ==
    /\ pc = "deleteTable"
    /\ \E res \in (IF tableExists THEN {OK} ELSE {"NotFound"}) \cup Transient :
          /\ calls' = Append(calls, Call("DeleteTable", <<>>, res))
          /\ pc' = IF res # OK THEN Fatal(pc) ELSE "done"
          /\ IF res = OK
             THEN /\ tableExists' = FALSE
                  /\ families' = {}
                  /\ rows' = EmptyRows
             ELSE UNCHANGED svc
    /\ UNCHANGED <<variant, flags, rows0, now, i, ret, dialed, single, scanned>>

\* main returns: the deferred dataClient.Close() and adminClient.Close() run,
\* last deferred first.  log.Fatalf exits without running them.
DeferredClose ==
    /\ pc = "done"
    /\ calls' = calls \o <<Call("dataClient.Close", <<>>, OK),
                           Call("adminClient.Close", <<>>, OK)>>
    /\ pc' = "exited"
    /\ UNCHANGED <<variant, flags, svc, rows0, now, i, ret, dialed, single, scanned>>

Next ==
    \/ NewAdminClient
    \/ Dial
    \/ NewDataClient
    \/ TableInfo
    \/ CreateTable
    \/ CreateColumnFamily
    \/ Apply
    \/ ReadRow
    \/ ReadRows
    \/ DeleteTable
    \/ DeferredClose

Spec == Init /\ [][Next]_vars

(* ------------------------- reading the call log ----------------------- *)
Idx(op) == {k \in 1..Len(calls) : calls[k].op = op}
Made(op, res) == \E k \in Idx(op) : calls[k].res = res
\* An error the harness does not recover from: any error except the NotFound
\* of the existence check, which triggers creation.
Unrecovered(c) == c.res # OK /\ ~(c.op = "TableInfo" /\ c.res = "NotFound")
SetupOps == {"TableInfo", "CreateTable", "CreateColumnFamily"}
CallSites == {"NewAdminClient", "Dial", "NewClient", "NewClientWithConfig",
              "TableInfo", "CreateTable", "CreateColumnFamily", "Apply",
              "ReadRow", "ReadRows", "DeleteTable", "dataClient.Close",
              "adminClient.Close"}
AbortsAtFirstFailure ==
    \A k \in 1..Len(calls) :
        Unrecovered(calls[k]) => k = Len(calls) /\ pc = "fatal"
ScanSucceeded == Made("ReadRows", OK)
\* The n-th key the write stage is to produce, spelled out in bytes.
ExpectedKey(n) == rowKeyPrefix \o <<48 + n>>
\* The scan result the end-to-end scenario promises.
ThreeFreshRows ==
    /\ Len(scanned) = Len(greetings)
    /\ \A n \in 1..Len(scanned) :
          /\ scanned[n].key = ExpectedKey(n - 1)
          /\ Len(scanned[n].cells) = 1
          /\ scanned[n].cells[1].fam = columnFamily
          /\ scanned[n].cells[1].col = columnQualifier
          /\ scanned[n].cells[1].val = greetings[n]

(* -------------------------------- C1 ---------------------------------- *)
\* C1 (as claimed): whenever the service reports that the table already
\* exists, at TableInfo (success) or as an AlreadyExists error of CreateTable
\* or CreateColumnFamily, createTable returns success; every other admin
\* error makes createTable return an error.
C1_Original ==
    /\ (\/ Made("TableInfo", OK)
        \/ Made("CreateTable", "AlreadyExists")
        \/ Made("CreateColumnFamily", "AlreadyExists"))
          => ret.createTable = "ok"
    /\ (\E k \in 1..Len(calls) :
           /\ calls[k].op \in SetupOps
           /\ Unrecovered(calls[k])
           /\ calls[k].res # "AlreadyExists")
          => ret.createTable = "err"

\* C1 (amended): createTable returns success whenever the existence check
\* TableInfo succeeds; every error of TableInfo other than NotFound and every
\* error of CreateTable or CreateColumnFamily, AlreadyExists included, makes
\* createTable return an error.
C1_Amended ==
    /\ Made("TableInfo", OK) => ret.createTable = "ok"
    /\ (\E k \in 1..Len(calls) :
           calls[k].op \in SetupOps /\ Unrecovered(calls[k]))
          => ret.createTable = "err"

C1_Witness ==
    /\ Made("TableInfo", OK)
    /\ ret.createTable = "ok"
    /\ rows0 # EmptyRows

(* -------------------------------- C2 ---------------------------------- *)
\* C2: whenever createTable has returned success, the table exists and
\* contains the configured column family (checked up to the end of the scan,
\* before teardown removes the table).
C2_TableWithFamily ==
    (ret.createTable = "ok" /\ Idx("DeleteTable") = {})
        => tableExists /\ columnFamily \in families

(* -------------------------------- C3 ---------------------------------- *)
\* C3: only a NotFound of TableInfo leads to creation.  A TableInfo error
\* that is no status or has another code makes createTable return an error
\* with no CreateTable or CreateColumnFamily call; after NotFound the next
\* call is CreateTable, and CreateColumnFamily follows only its success.
C3_OnlyNotFoundCreates ==
    /\ \A k \in Idx("TableInfo") :
          /\ calls[k].res \notin {OK, "NotFound"} =>
                /\ ret.createTable = "err"
                /\ Idx("CreateTable") = {}
                /\ Idx("CreateColumnFamily") = {}
          /\ calls[k].res = "NotFound" =>
                IF k = Len(calls) THEN pc = "createTable"
                ELSE calls[k + 1].op = "CreateTable"
          /\ calls[k].res = OK =>
                Idx("CreateTable") = {} /\ Idx("CreateColumnFamily") = {}
    /\ \A k \in Idx("CreateTable") :
          /\ k > 1 /\ calls[k - 1].op = "TableInfo" /\ calls[k - 1].res = "NotFound"
          /\ calls[k].res = OK =>
                IF k = Len(calls) THEN pc = "createCF"
                ELSE calls[k + 1].op = "CreateColumnFamily"
          /\ calls[k].res # OK => k = Len(calls)
    /\ \A k \in Idx("CreateColumnFamily") :
          k > 1 /\ calls[k - 1].op = "CreateTable" /\ calls[k - 1].res = OK

C3_Witness ==
    /\ Made("TableInfo", "NotFound")
    /\ Made("CreateTable", OK)
    /\ Made("CreateColumnFamily", OK)

(* -------------------------------- C4 ---------------------------------- *)
\* C4 (as claimed): after the first unrecovered failing call no further call
\* is made, and every call site is invoked at most once per run.
C4_Original ==
    /\ AbortsAtFirstFailure
    /\ \A op \in CallSites : Cardinality(Idx(op)) <= 1

\* C4 (amended): after the first unrecovered failing call no further call is
\* made, and no call is repeated: every call site is invoked at most once per
\* run, except the Apply of writeToTable's loop, which is invoked at most once
\* per row key, at most len(greetings) times.
C4_Amended ==
    /\ AbortsAtFirstFailure
    /\ \A op \in CallSites \ {"Apply"} : Cardinality(Idx(op)) <= 1
    /\ Cardinality(Idx("Apply")) <= Len(greetings)
    /\ \A j, k \in Idx("Apply") : j # k => calls[j].arg # calls[k].arg

C4_Witness ==
    /\ pc = "fatal"
    /\ calls[Len(calls)].op = "ReadRow"
    /\ Cardinality(Idx("Apply")) = Len(greetings)

(* -------------------------------- C5 ---------------------------------- *)
\* C5 (as claimed): in every run whose scan succeeds, whatever the table held
\* before the run, the scan yields exactly the rows prefix+0, prefix+1,
\* prefix+2 in that order, each with exactly one cell, in the configured
\* family and qualifier.
C5_Original == ScanSucceeded => ThreeFreshRows

\* C5 (amended): the same, for every run that starts with no row under the
\* prefix in the table (a table the run creates, or an existing table whose
\* rows all lie outside the prefix).
C5_Amended ==
    (ScanSucceeded /\ \A k \in DOMAIN rows0 : ~HasPrefix(k, rowKeyPrefix))
        => ThreeFreshRows

C5_Witness ==
    /\ ScanSucceeded
    /\ rows0 # EmptyRows
    /\ \A k \in DOMAIN rows0 : ~HasPrefix(k, rowKeyPrefix)
    /\ Len(scanned) = 3

(* -------------------------------- C6 ---------------------------------- *)
\* C6: DeleteTable is invoked at most once, only right after a successful
\* scan and only when skip_table_deletion is false; once the scan has
\* succeeded, the run either skips teardown and ends (flag true) or its next
\* call is DeleteTable (flag false).
C6_Teardown ==
    /\ Cardinality(Idx("DeleteTable")) <= 1
    /\ \A k \in Idx("DeleteTable") :
          /\ ~flags.skipTableDeletion
          /\ k > 1 /\ calls[k - 1].op = "ReadRows" /\ calls[k - 1].res = OK
    /\ \A k \in Idx("ReadRows") :
          calls[k].res = OK =>
             IF flags.skipTableDeletion
             THEN pc \in {"done", "exited"} /\ Idx("DeleteTable") = {}
             ELSE IF k = Len(calls) THEN pc = "deleteTable"
             ELSE calls[k + 1].op = "DeleteTable"

C6_Witness ==
    /\ variant = "rls"
    /\ flags.skipTableDeletion
    /\ pc = "exited"
    /\ ScanSucceeded
    /\ tableExists

(* -------------------------------- C9 ---------------------------------- *)
\* C9: the service config handed to Dial carries the fixed RLS default target
\* exactly when enable_default_target is set and the empty string otherwise;
\* createDataClient fails exactly when Dial or the client constructor fails,
\* whatever the default target; NewClientWithConfig is the constructor
\* exactly when the app profile is not empty.
C9_DataClient ==
    /\ \A n \in 1..Len(dialed) :
          /\ dialed[n].lookupService = cbtRLSTestEndpoint
          /\ flags.enableDefaultTarget => dialed[n].defaultTarget = rlsDefaultTarget
          /\ ~flags.enableDefaultTarget => dialed[n].defaultTarget = ""
    /\ variant = "rls" =>
          /\ ret.createDataClient = "err" <=>
                \E k \in Idx("Dial") \cup Idx("NewClient") \cup Idx("NewClientWithConfig") :
                    calls[k].res # OK
          /\ ret.createDataClient = "ok" <=>
                /\ Made("Dial", OK)
                /\ Made("NewClient", OK) \/ Made("NewClientWithConfig", OK)
          /\ Idx("NewClientWithConfig") # {} => flags.appProfile # ""
          /\ Idx("NewClient") # {} => flags.appProfile = ""

C9_Witness ==
    /\ variant = "rls"
    /\ ~flags.enableDefaultTarget
    /\ Len(dialed) = 1
    /\ dialed[1].defaultTarget = ""
    /\ ret.createDataClient = "ok"
    /\ Made("NewClientWithConfig", OK)

(* -------------------------------- C10 --------------------------------- *)
\* Row n carries a cell written by this run.
Written(n) ==
    /\ ExpectedKey(n) \in DOMAIN rows
    /\ \E c \in 1..Len(rows[ExpectedKey(n)]) : rows[ExpectedKey(n)][c].ts >= 1

\* C10: the Apply calls go through the rows in index order, each attempted
\* only after all earlier ones succeeded; what was written stays written (no
\* rollback) and is a prefix of rows 0..2; writeToTable returns success only
\* with all three applied; ReadRow and ReadRows come only after that.
C10_WriteOrder ==
    LET A == Idx("Apply")
        done == {k \in A : calls[k].res = OK}
    IN  /\ Cardinality(A) <= Len(greetings)
        /\ \A k \in A :
              /\ calls[k].arg = ExpectedKey(Cardinality({j \in A : j < k}))
              /\ \A j \in A : j < k => calls[j].res = OK
        /\ Idx("DeleteTable") = {} =>
              \A n \in 0..(Len(greetings) - 1) : Written(n) <=> n < Cardinality(done)
        /\ ret.writeToTable = "ok" <=> Cardinality(done) = Len(greetings)
        /\ \A k \in Idx("ReadRow") \cup Idx("ReadRows") :
              /\ ret.writeToTable = "ok"
              /\ \A j \in A : j < k

C10_Witness ==
    /\ pc = "fatal"
    /\ Cardinality(Idx("Apply")) = 2
    /\ Written(0)
    /\ ~Written(1)

====
